---- MODULE Spec2Model ----
(***************************************************************************)
(* Model of backend/main.py: the POST /transcribe handler                  *)
(* (transcribe_audio), the temporary files it creates and removes, the     *)
(* external converter (ffmpeg) and recognizer (whisper) it calls, and the  *)
(* single asyncio event loop that uvicorn.run(app) serves requests on.     *)
(***************************************************************************)
EXTENDS Integers, Sequences, FiniteSets, TLC

(* ------------------------------ bounds --------------------------------- *)
\* number of requests the clients send in the concurrent specification
NumRequests == 2
\* number of distinct random names tempfile can draw
NumStems == 2
\* leading / trailing whitespace the recognizer may put around its text
MaxPad == 1
\* short transcripts have 0..MaxShort characters
MaxShort == 3
\* long transcripts have TldrChars-Margin .. TldrChars+Margin characters
Margin == 3
\* upload sizes within SizeSlack bytes of the limit are tried
SizeSlack == 1

(* -------------------------- program constants -------------------------- *)
\* main.py:74  len(contents) / (1024 * 1024)
BytesPerMB == 1024 * 1024
\* main.py:75  if file_size > 25
MaxMB == 25
\* main.py:115 text[:150] ... len(text) > 150
TldrChars == 150

Requests == 1..NumRequests
NoOne == 0
None == <<>>

(* ----------------------------- file names ------------------------------ *)
TmpDir == "/tmp/tmp"
Stems == {ToString(i) : i \in 1..NumStems}
\* tempfile.NamedTemporaryFile(delete=False, suffix=".ogg").name
TempName(stem) == <<TmpDir, stem, ".ogg">>
\* str.replace(old, new): every occurrence of old is replaced
Replace(path, old, new) ==
    [i \in DOMAIN path |-> IF path[i] = old THEN new ELSE path[i]]
AllPaths == {<<TmpDir, s, e>> : s \in Stems, e \in {".ogg", ".wav"}}

(* ------------------------------- strings ------------------------------- *)
Whitespace == {" "}
Ellipsis == <<".", ".", ".">>

RECURSIVE LStrip(_)
LStrip(s) == IF s = <<>> \/ Head(s) \notin Whitespace THEN s ELSE LStrip(Tail(s))
RECURSIVE RStrip(_)
RStrip(s) ==
    IF s = <<>> \/ s[Len(s)] \notin Whitespace THEN s
    ELSE RStrip(SubSeq(s, 1, Len(s) - 1))
\* str.strip()
Strip(s) == RStrip(LStrip(s))

\* mutant: the comparison is >= instead of >
TldrOffByOne(text) ==
    IF Len(text) >= TldrChars THEN SubSeq(text, 1, TldrChars) \o Ellipsis ELSE text
\* main.py:115  tldr = text[:150] + "..." if len(text) > 150 else text
Tldr(text) ==
    IF Len(text) > TldrChars THEN SubSeq(text, 1, TldrChars) \o Ellipsis ELSE text

\* mutant: integer (floor) division of the length, 25 MiB + 1 byte gives 25
FileTooLargeFloor(n) == (n \div BytesPerMB) > MaxMB
\* main.py:74-75  file_size = len(contents) / (1024 * 1024); file_size > 25
\* (true division by 2^20 is exact on a double for every length below 2^53,
\*  so the comparison is the one on the exact quotient n / 2^20 > 25)
FileTooLarge(n) == n > MaxMB * BytesPerMB

(* ------------------------- exceptions, responses ----------------------- *)
NoExc == [kind |-> "none", status_code |-> 0, detail |-> <<>>]
HTTPException(code, detail) ==
    [kind |-> "HTTPException", status_code |-> code, detail |-> detail]
PlainException(msg) == [kind |-> "Exception", status_code |-> 0, detail |-> msg]
Return == [kind |-> "return", status_code |-> 0, detail |-> <<>>]

TooLargeDetail == <<"File too large. Max 25MB.">>
ConversionDetail == <<"Audio conversion failed">>
InternalDetail == <<"Internal server error">>
DiskFullMsg == <<"[Errno 28] No space left on device">>
NoFfmpegMsg == <<"[Errno 2] No such file or directory: 'ffmpeg'">>
RecognizerMsg == <<"recognizer error">>
RemoveMsg == <<"[Errno 13] Permission denied">>

NoResponse ==
    [status_code |-> 0, detail |-> <<>>, transcript |-> <<>>, tldr |-> <<>>,
     status |-> ""]
ErrorResponse(code, detail) ==
    [status_code |-> code, detail |-> detail, transcript |-> <<>>,
     tldr |-> <<>>, status |-> ""]
\* TranscriptionResponse(transcript=text, tldr=tldr), status defaults to "success"
TranscriptionResponse(text, tl) ==
    [status_code |-> 200, detail |-> <<>>, transcript |-> text, tldr |-> tl,
     status |-> "success"]

(* ------------------------------- inputs -------------------------------- *)
Limit == MaxMB * BytesPerMB
NoUpload == [size |-> 0 - 1, speech |-> <<>>]

Pad(k) == [i \in 1..k |-> " "]
BodyKinds == {"plain", "dots", "tail", "mid"}
\* n characters: all letters; all dots; letters ending in "..."; letters with
\* "..." at positions 151..153
Body(n, kind) ==
    [i \in 1..n |->
        CASE kind = "plain" -> "a"
          [] kind = "dots" -> "."
          [] kind = "tail" -> IF i > n - 3 THEN "." ELSE "a"
          [] kind = "mid" -> IF i > TldrChars /\ i <= TldrChars + 3 THEN "." ELSE "a"]
Lengths == (0..MaxShort) \cup ((TldrChars - Margin)..(TldrChars + Margin))
\* what the recognizer returns as result["text"] for an upload
Speeches ==
    {Pad(l) \o Body(n, k) \o Pad(t) :
        l \in 0..MaxPad, t \in 0..MaxPad, n \in Lengths, k \in BodyKinds}
SoloSizes == {0, 30 * 1000 * 1000} \cup ((Limit - SizeSlack)..(Limit + SizeSlack))
SoloUploads == {[size |-> z, speech |-> s] : z \in SoloSizes, s \in Speeches}
ConcSpeech == <<" ", "h", "i", ".", ".", ".">>
ConcUploads == {[size |-> z, speech |-> ConcSpeech] : z \in {Limit, Limit + 1}}

VARIABLES
    upload,          \* upload[r]: the file request r carries (NoUpload: none is sent)
    httpExcStr,      \* whether the installed starlette defines HTTPException.__str__
    pc,              \* pc[r]: where request r's handler stands
    tmp_input_path,  \* main.py:79/85
    wav_path,        \* main.py:78/88
    returncode,      \* <<>> or <<result.returncode>> of the converter
    text,            \* main.py:111
    tldr,            \* main.py:115
    exc,             \* exception raised inside the try body
    pending,         \* what leaves the try statement while finally runs
    idx,             \* position of the cleanup loop, main.py:135
    response,        \* the HTTP response sent for r
    disk,            \* disk[p]: the request that created file p, or NoOne
    steps,           \* history: processing steps r has started, in order
    rmFailed,        \* history: paths on which r's os.remove raised
    touched          \* history: creators of the files r read or removed

vars ==
    <<upload, httpExcStr, pc, tmp_input_path, wav_path, returncode, text, tldr,
      exc, pending, idx, response, disk, steps, rmFailed, touched>>

(* ------------------------------ event loop ----------------------------- *)
\* the handler is `async def` and its only await is file.read(): from there
\* to the response it runs on the event loop without yielding
RunningPcs ==
    {"validate", "save", "convert", "converting", "transcribe", "recognizing",
     "shape", "except", "finally"}
InFlight(r) == pc[r] \notin {"idle", "done"}

\* mutant: every handler runs on a thread of its own
LoopFreeThreaded == TRUE
\* the loop can start or resume a coroutine only when no coroutine is running
LoopFree == \A s \in Requests : pc[s] \notin RunningPcs

\* str(e) for the exception caught at main.py:129
\* starlette >= 0.28 formats "<status_code>: <detail>"; older releases define
\* no __str__ and the keyword-only construction leaves args empty
Str(e, hasStr) ==
    IF e.kind = "HTTPException"
    THEN IF hasStr THEN <<ToString(e.status_code), ": ">> \o e.detail ELSE <<>>
    ELSE e.detail

\* what the framework answers for the outcome of the endpoint:
\* HTTPException -> its status and detail; a returned model -> 200;
\* any other exception -> general_exception_handler, main.py:143-149
Surface(out, r) ==
    CASE out.kind = "HTTPException" -> ErrorResponse(out.status_code, out.detail)
      [] out.kind = "return" -> TranscriptionResponse(text[r], tldr[r])
      [] OTHER -> ErrorResponse(500, InternalDetail)

Init ==
    /\ upload \in [Requests -> ConcUploads]
    /\ httpExcStr \in BOOLEAN
    /\ pc = [r \in Requests |-> "idle"]
    /\ tmp_input_path = [r \in Requests |-> None]
    /\ wav_path = [r \in Requests |-> None]
    /\ returncode = [r \in Requests |-> <<>>]
    /\ text = [r \in Requests |-> <<>>]
    /\ tldr = [r \in Requests |-> <<>>]
    /\ exc = [r \in Requests |-> NoExc]
    /\ pending = [r \in Requests |-> NoExc]
    /\ idx = [r \in Requests |-> 1]
    /\ response = [r \in Requests |-> NoResponse]
    /\ disk = [p \in AllPaths |-> NoOne]
    /\ steps = [r \in Requests |-> <<>>]
    /\ rmFailed = [r \in Requests |-> {}]
    /\ touched = [r \in Requests |-> {}]

\* one client, one request, inputs drawn from the wide sets
InitSolo ==
    /\ upload \in {[r \in Requests |-> IF r = 1 THEN u ELSE NoUpload] : u \in SoloUploads}
    /\ httpExcStr \in BOOLEAN
    /\ pc = [r \in Requests |-> "idle"]
    /\ tmp_input_path = [r \in Requests |-> None]
    /\ wav_path = [r \in Requests |-> None]
    /\ returncode = [r \in Requests |-> <<>>]
    /\ text = [r \in Requests |-> <<>>]
    /\ tldr = [r \in Requests |-> <<>>]
    /\ exc = [r \in Requests |-> NoExc]
    /\ pending = [r \in Requests |-> NoExc]
    /\ idx = [r \in Requests |-> 1]
    /\ response = [r \in Requests |-> NoResponse]
    /\ disk = [p \in AllPaths |-> NoOne]
    /\ steps = [r \in Requests |-> <<>>]
    /\ rmFailed = [r \in Requests |-> {}]
    /\ touched = [r \in Requests |-> {}]

(* ------------------------------- actions ------------------------------- *)
\* main.py:62-73  the request arrives; the handler starts and awaits file.read()
Receive(r) ==
    /\ pc[r] = "idle"
    /\ upload[r] # NoUpload
    /\ LoopFree
    /\ pc' = [pc EXCEPT ![r] = "reading"]
    /\ UNCHANGED <<upload, httpExcStr, tmp_input_path, wav_path, returncode, text,
                   tldr, exc, pending, idx, response, disk, steps, rmFailed, touched>>

\* main.py:73  the read completes and the loop resumes the handler
ReadDone(r) ==
    /\ pc[r] = "reading"
    /\ LoopFree
    /\ pc' = [pc EXCEPT ![r] = "validate"]
    /\ UNCHANGED <<upload, httpExcStr, tmp_input_path, wav_path, returncode, text,
                   tldr, exc, pending, idx, response, disk, steps, rmFailed, touched>>

\* mutant: the size check placed after the upload is saved
ValidateAfterSave(r) ==
    /\ pc[r] = "validate"
    /\ IF FileTooLarge(upload[r].size)
       THEN \E s \in Stems :
              /\ disk[TempName(s)] = NoOne
              /\ disk' = [disk EXCEPT ![TempName(s)] = r]
              /\ steps' = [steps EXCEPT ![r] = Append(@, "write")]
              /\ response' =
                    [response EXCEPT ![r] = Surface(HTTPException(413, TooLargeDetail), r)]
              /\ pc' = [pc EXCEPT ![r] = "done"]
       ELSE /\ pc' = [pc EXCEPT ![r] = "save"]
            /\ UNCHANGED <<response, disk, steps>>
    /\ UNCHANGED <<upload, httpExcStr, tmp_input_path, wav_path, returncode, text,
                   tldr, exc, pending, idx, rmFailed, touched>>
\* main.py:74-79  the size check; the 413 is raised outside the try statement
Validate(r) ==
    /\ pc[r] = "validate"
    /\ IF FileTooLarge(upload[r].size)
       THEN /\ response' =
                  [response EXCEPT ![r] = Surface(HTTPException(413, TooLargeDetail), r)]
            /\ pc' = [pc EXCEPT ![r] = "done"]
       ELSE /\ pc' = [pc EXCEPT ![r] = "save"]
            /\ UNCHANGED response
    /\ UNCHANGED <<upload, httpExcStr, tmp_input_path, wav_path, returncode, text,
                   tldr, exc, pending, idx, disk, steps, rmFailed, touched>>

\* main.py:83-88  the temporary file is created under an unused name, written
\* and closed; wav_path is derived from its name
SaveUploadOk(r) ==
    /\ pc[r] = "save"
    /\ \E s \in Stems :
         /\ disk[TempName(s)] = NoOne
         /\ disk' = [disk EXCEPT ![TempName(s)] = r]
         /\ tmp_input_path' = [tmp_input_path EXCEPT ![r] = TempName(s)]
         /\ wav_path' = [wav_path EXCEPT ![r] = Replace(TempName(s), ".ogg", ".wav")]
    /\ steps' = [steps EXCEPT ![r] = Append(@, "write")]
    /\ pc' = [pc EXCEPT ![r] = "convert"]
    /\ UNCHANGED <<upload, httpExcStr, returncode, text, tldr, exc, pending, idx,
                   response, rmFailed, touched>>

\* main.py:83  NamedTemporaryFile itself raises: no file exists
SaveUploadCreateFails(r) ==
    /\ pc[r] = "save"
    /\ steps' = [steps EXCEPT ![r] = Append(@, "write")]
    /\ exc' = [exc EXCEPT ![r] = PlainException(DiskFullMsg)]
    /\ pc' = [pc EXCEPT ![r] = "except"]
    /\ UNCHANGED <<upload, httpExcStr, tmp_input_path, wav_path, returncode, text,
                   tldr, pending, idx, response, disk, rmFailed, touched>>

\* main.py:84  tmp_file.write raises: the file exists (delete=False) and line 85
\* never runs, so tmp_input_path stays None
SaveUploadWriteFails(r) ==
    /\ pc[r] = "save"
    /\ \E s \in Stems :
         /\ disk[TempName(s)] = NoOne
         /\ disk' = [disk EXCEPT ![TempName(s)] = r]
    /\ steps' = [steps EXCEPT ![r] = Append(@, "write")]
    /\ exc' = [exc EXCEPT ![r] = PlainException(DiskFullMsg)]
    /\ pc' = [pc EXCEPT ![r] = "except"]
    /\ UNCHANGED <<upload, httpExcStr, tmp_input_path, wav_path, returncode, text,
                   tldr, pending, idx, response, rmFailed, touched>>

\* main.py:83-85  the buffered bytes fail to flush when the with block closes
\* the file: line 85 has run, line 88 has not
SaveUploadCloseFails(r) ==
    /\ pc[r] = "save"
    /\ \E s \in Stems :
         /\ disk[TempName(s)] = NoOne
         /\ disk' = [disk EXCEPT ![TempName(s)] = r]
         /\ tmp_input_path' = [tmp_input_path EXCEPT ![r] = TempName(s)]
    /\ steps' = [steps EXCEPT ![r] = Append(@, "write")]
    /\ exc' = [exc EXCEPT ![r] = PlainException(DiskFullMsg)]
    /\ pc' = [pc EXCEPT ![r] = "except"]
    /\ UNCHANGED <<upload, httpExcStr, wav_path, returncode, text, tldr, pending,
                   idx, response, rmFailed, touched>>

\* main.py:91-97  subprocess.run starts ffmpeg and blocks until it exits
StartConvert(r) ==
    /\ pc[r] = "convert"
    /\ steps' = [steps EXCEPT ![r] = Append(@, "convert")]
    /\ pc' = [pc EXCEPT ![r] = "converting"]
    /\ UNCHANGED <<upload, httpExcStr, tmp_input_path, wav_path, returncode, text,
                   tldr, exc, pending, idx, response, disk, rmFailed, touched>>

\* main.py:91  subprocess.run raises (no ffmpeg executable)
ConverterSpawnFails(r) ==
    /\ pc[r] = "convert"
    /\ steps' = [steps EXCEPT ![r] = Append(@, "convert")]
    /\ exc' = [exc EXCEPT ![r] = PlainException(NoFfmpegMsg)]
    /\ pc' = [pc EXCEPT ![r] = "except"]
    /\ UNCHANGED <<upload, httpExcStr, tmp_input_path, wav_path, returncode, text,
                   tldr, pending, idx, response, disk, rmFailed, touched>>

\* main.py:91-99  ffmpeg exits with status 0, having written wav_path
\* (without -y it does not overwrite an existing file)
ConverterExitZero(r) ==
    /\ pc[r] = "converting"
    /\ disk[wav_path[r]] = NoOne
    /\ disk' = [disk EXCEPT ![wav_path[r]] = r]
    /\ touched' = [touched EXCEPT ![r] = @ \cup {disk[tmp_input_path[r]]}]
    /\ returncode' = [returncode EXCEPT ![r] = <<0>>]
    /\ pc' = [pc EXCEPT ![r] = "transcribe"]
    /\ UNCHANGED <<upload, httpExcStr, tmp_input_path, wav_path, text, tldr, exc,
                   pending, idx, response, steps, rmFailed>>

\* mutant: the exit status is not checked
ConverterExitNonZeroIgnored(r) ==
    /\ pc[r] = "converting"
    /\ \E partial \in BOOLEAN :
         /\ partial => disk[wav_path[r]] = NoOne
         /\ disk' = IF partial THEN [disk EXCEPT ![wav_path[r]] = r] ELSE disk
    /\ touched' = [touched EXCEPT ![r] = @ \cup {disk[tmp_input_path[r]]}]
    /\ returncode' = [returncode EXCEPT ![r] = <<1>>]
    /\ pc' = [pc EXCEPT ![r] = "transcribe"]
    /\ UNCHANGED <<upload, httpExcStr, tmp_input_path, wav_path, text, tldr, exc,
                   pending, idx, response, steps, rmFailed>>
\* main.py:99-101  ffmpeg exits with a non-zero status, with or without a
\* partial output file; HTTPException(500) is raised inside the try body
ConverterExitNonZero(r) ==
    /\ pc[r] = "converting"
    /\ \E partial \in BOOLEAN :
         /\ partial => disk[wav_path[r]] = NoOne
         /\ disk' = IF partial THEN [disk EXCEPT ![wav_path[r]] = r] ELSE disk
    /\ touched' = [touched EXCEPT ![r] = @ \cup {disk[tmp_input_path[r]]}]
    /\ returncode' = [returncode EXCEPT ![r] = <<1>>]
    /\ exc' = [exc EXCEPT ![r] = HTTPException(500, ConversionDetail)]
    /\ pc' = [pc EXCEPT ![r] = "except"]
    /\ UNCHANGED <<upload, httpExcStr, tmp_input_path, wav_path, text, tldr,
                   pending, idx, response, steps, rmFailed>>

\* main.py:104-109  model.transcribe is called and blocks until it returns
StartTranscribe(r) ==
    /\ pc[r] = "transcribe"
    /\ steps' = [steps EXCEPT ![r] = Append(@, "recognize")]
    /\ pc' = [pc EXCEPT ![r] = "recognizing"]
    /\ UNCHANGED <<upload, httpExcStr, tmp_input_path, wav_path, returncode, text,
                   tldr, exc, pending, idx, response, disk, rmFailed, touched>>

\* main.py:105-109  the recognizer returns its result
RecognizerReturns(r) ==
    /\ pc[r] = "recognizing"
    /\ touched' = [touched EXCEPT ![r] = @ \cup {disk[wav_path[r]]}]
    /\ pc' = [pc EXCEPT ![r] = "shape"]
    /\ UNCHANGED <<upload, httpExcStr, tmp_input_path, wav_path, returncode, text,
                   tldr, exc, pending, idx, response, disk, steps, rmFailed>>

\* main.py:105-109  the recognizer raises
RecognizerRaises(r) ==
    /\ pc[r] = "recognizing"
    /\ exc' = [exc EXCEPT ![r] = PlainException(RecognizerMsg)]
    /\ pc' = [pc EXCEPT ![r] = "except"]
    /\ UNCHANGED <<upload, httpExcStr, tmp_input_path, wav_path, returncode, text,
                   tldr, pending, idx, response, disk, steps, rmFailed, touched>>

\* main.py:111-127  the result is shaped and returned
Shape(r) ==
    /\ pc[r] = "shape"
    /\ text' = [text EXCEPT ![r] = Strip(upload[r].speech)]
    /\ tldr' = [tldr EXCEPT ![r] = Tldr(Strip(upload[r].speech))]
    /\ steps' = [steps EXCEPT ![r] = Append(@, "shape")]
    /\ pending' = [pending EXCEPT ![r] = Return]
    /\ pc' = [pc EXCEPT ![r] = "finally"]
    /\ UNCHANGED <<upload, httpExcStr, tmp_input_path, wav_path, returncode, exc,
                   idx, response, disk, rmFailed, touched>>

\* main.py:129-131  except Exception catches whatever the try body raised,
\* HTTPException included, and raises HTTPException(500, str(e))
Except(r) ==
    /\ pc[r] = "except"
    /\ pending' = [pending EXCEPT ![r] = HTTPException(500, Str(exc[r], httpExcStr))]
    /\ pc' = [pc EXCEPT ![r] = "finally"]
    /\ UNCHANGED <<upload, httpExcStr, tmp_input_path, wav_path, returncode, text,
                   tldr, exc, idx, response, disk, steps, rmFailed, touched>>

\* main.py:135  for path in [tmp_input_path, wav_path]
CleanupPath(r) == <<tmp_input_path[r], wav_path[r]>>[idx[r]]
\* main.py:136  path and os.path.exists(path)
Removable(path) == IF path = None THEN FALSE ELSE disk[path] # NoOne

\* main.py:136  path is None or no such file: nothing to remove
CleanupSkip(r) ==
    /\ pc[r] = "finally"
    /\ idx[r] <= 2
    /\ ~Removable(CleanupPath(r))
    /\ idx' = [idx EXCEPT ![r] = @ + 1]
    /\ UNCHANGED <<upload, httpExcStr, pc, tmp_input_path, wav_path, returncode,
                   text, tldr, exc, pending, response, disk, steps, rmFailed, touched>>

\* main.py:136-138  os.remove(path) succeeds
CleanupRemove(r) ==
    /\ pc[r] = "finally"
    /\ idx[r] <= 2
    /\ Removable(CleanupPath(r))
    /\ disk' = [disk EXCEPT ![CleanupPath(r)] = NoOne]
    /\ touched' = [touched EXCEPT ![r] = @ \cup {disk[CleanupPath(r)]}]
    /\ idx' = [idx EXCEPT ![r] = @ + 1]
    /\ UNCHANGED <<upload, httpExcStr, pc, tmp_input_path, wav_path, returncode,
                   text, tldr, exc, pending, response, steps, rmFailed>>

\* mutant: no try/except around os.remove, the error leaves the finally block
CleanupRemoveFailsRaises(r) ==
    /\ pc[r] = "finally"
    /\ idx[r] <= 2
    /\ Removable(CleanupPath(r))
    /\ rmFailed' = [rmFailed EXCEPT ![r] = @ \cup {CleanupPath(r)}]
    /\ pending' = [pending EXCEPT ![r] = PlainException(RemoveMsg)]
    /\ idx' = [idx EXCEPT ![r] = 3]
    /\ UNCHANGED <<upload, httpExcStr, pc, tmp_input_path, wav_path, returncode,
                   text, tldr, exc, response, disk, steps, touched>>
\* main.py:137-140  os.remove(path) raises; the bare except swallows it
CleanupRemoveFails(r) ==
    /\ pc[r] = "finally"
    /\ idx[r] <= 2
    /\ Removable(CleanupPath(r))
    /\ rmFailed' = [rmFailed EXCEPT ![r] = @ \cup {CleanupPath(r)}]
    /\ idx' = [idx EXCEPT ![r] = @ + 1]
    /\ UNCHANGED <<upload, httpExcStr, pc, tmp_input_path, wav_path, returncode,
                   text, tldr, exc, pending, response, disk, steps, touched>>

\* the finally block is over: the pending return value or exception leaves
\* the handler and the framework sends the response
Respond(r) ==
    /\ pc[r] = "finally"
    /\ idx[r] = 3
    /\ response' = [response EXCEPT ![r] = Surface(pending[r], r)]
    /\ pc' = [pc EXCEPT ![r] = "done"]
    /\ UNCHANGED <<upload, httpExcStr, tmp_input_path, wav_path, returncode, text,
                   tldr, exc, pending, idx, disk, steps, rmFailed, touched>>

Next ==
    \E r \in Requests :
        \/ Receive(r)
        \/ ReadDone(r)
        \/ Validate(r)
        \/ SaveUploadOk(r)
        \/ SaveUploadCreateFails(r)
        \/ SaveUploadWriteFails(r)
        \/ SaveUploadCloseFails(r)
        \/ StartConvert(r)
        \/ ConverterSpawnFails(r)
        \/ ConverterExitZero(r)
        \/ ConverterExitNonZero(r)
        \/ StartTranscribe(r)
        \/ RecognizerReturns(r)
        \/ RecognizerRaises(r)
        \/ Shape(r)
        \/ Except(r)
        \/ CleanupSkip(r)
        \/ CleanupRemove(r)
        \/ CleanupRemoveFails(r)
        \/ Respond(r)

Spec == Init /\ [][Next]_vars
SpecSolo == InitSolo /\ [][Next]_vars

(* ------------------------------ properties ----------------------------- *)
IsPrefix(a, b) == Len(a) <= Len(b) /\ SubSeq(b, 1, Len(a)) = a
EndsWithEllipsis(s) == Len(s) >= 3 /\ SubSeq(s, Len(s) - 2, Len(s)) = Ellipsis
Range(f) == {f[i] : i \in DOMAIN f}
\* the files on disk that request r created
FilesOf(r) == {p \in AllPaths : disk[p] = r}
\* the temporary paths request r holds in its local variables
PathsOf(r) == {tmp_input_path[r], wav_path[r]} \ {None}
StepOrder == <<"write", "convert", "recognize", "shape">>

\* C1: once a request has its response, none of the temporary files it
\* created is still on disk, whatever the exit path.
C1_NoTempFileLeft ==
    \A r \in Requests : pc[r] = "done" => FilesOf(r) = {}

\* C2: the response is 413 exactly when the upload is longer than
\* 25 * 1024 * 1024 bytes; an upload of exactly 25 MiB is not rejected.
C2_SizeLimit ==
    \A r \in Requests :
        pc[r] = "done" =>
            (response[r].status_code = 413 <=> upload[r].size > 25 * 1024 * 1024)
C2_Witness ==
    \E r \in Requests :
        /\ pc[r] = "done"
        /\ upload[r].size = 25 * 1024 * 1024
        /\ response[r].status_code = 200

\* C3: a request answered 413 has started no processing step: it wrote no
\* temporary file, never ran the converter and never ran the recognizer.
C3_RejectedBeforeProcessing ==
    \A r \in Requests :
        response[r].status_code = 413 =>
            /\ steps[r] = <<>>
            /\ PathsOf(r) = {}
            /\ FilesOf(r) = {}
            /\ returncode[r] = <<>>
            /\ touched[r] = {}
C3_Witness ==
    \E r, s \in Requests :
        /\ pc[r] = "done"
        /\ response[r].status_code = 413
        /\ steps[s] = StepOrder

\* C4: when the converter exits with a non-zero status the response is 500
\* with the detail "Audio conversion failed".
C4_ConversionFailureDetail ==
    \A r \in Requests :
        (pc[r] = "done" /\ returncode[r] # <<>> /\ returncode[r] # <<0>>) =>
            /\ response[r].status_code = 500
            /\ response[r].detail = <<"Audio conversion failed">>

\* the request passed the size check and both the converter and the
\* recognizer succeeded
Transcribed(r) ==
    /\ pc[r] = "done"
    /\ upload[r].size <= 25 * 1024 * 1024
    /\ returncode[r] = <<0>>
    /\ "shape" \in Range(steps[r])

\* C5 as stated: on success tldr is a prefix of transcript, has at most 153
\* characters, and ends in "..." exactly when transcript has more than 150.
C5_TldrAsClaimed ==
    \A r \in Requests :
        Transcribed(r) =>
            /\ response[r].status = "success"
            /\ IsPrefix(response[r].tldr, response[r].transcript)
            /\ Len(response[r].tldr) <= 153
            /\ EndsWithEllipsis(response[r].tldr) <=> Len(response[r].transcript) > 150

\* C5 amended: on success tldr has at most 153 characters; when transcript has
\* more than 150 characters tldr is 150 characters of prefix of transcript
\* followed by "..."; otherwise tldr is transcript itself.
C5_TldrAmended ==
    \A r \in Requests :
        Transcribed(r) =>
            LET tl == response[r].tldr
                tr == response[r].transcript
            IN  /\ response[r].status = "success"
                /\ tr = Strip(upload[r].speech)
                /\ Len(tl) <= 153
                /\ IF Len(tr) > 150
                   THEN /\ Len(tl) = 153
                        /\ EndsWithEllipsis(tl)
                        /\ IsPrefix(SubSeq(tl, 1, 150), tr)
                   ELSE tl = tr
C5_Witness ==
    \E r \in Requests :
        /\ Transcribed(r)
        /\ Len(response[r].transcript) = 151
        /\ Len(upload[r].speech) = 153
        /\ ~IsPrefix(response[r].tldr, response[r].transcript)

\* C6: an exception raised in the try body that is an HTTP error is surfaced
\* with its own status and detail; any other is surfaced as 500 with its
\* string as detail; neither gets the generic "Internal server error".
C6_ExceptionsSurfaced ==
    \A r \in Requests :
        (pc[r] = "done" /\ exc[r].kind # "none") =>
            /\ response[r].detail # <<"Internal server error">>
            /\ IF exc[r].kind = "HTTPException"
               THEN /\ response[r].status_code = exc[r].status_code
                    /\ response[r].detail = exc[r].detail
               ELSE /\ response[r].status_code = 500
                    /\ response[r].detail = exc[r].detail

\* C7: a failing os.remove changes nothing in the response (it is the one the
\* try statement decided: the shaped result, or 500 with str of the caught
\* exception), and every file the request still holds a path to and left on
\* disk is one whose removal was attempted and failed.
C7_CleanupNeverRaises ==
    \A r \in Requests :
        (pc[r] = "done" /\ steps[r] # <<>>) =>
            /\ IF exc[r].kind = "none"
               THEN /\ response[r].status_code = 200
                    /\ response[r].transcript = text[r]
               ELSE /\ response[r].status_code = 500
                    /\ response[r].detail = Str(exc[r], httpExcStr)
            /\ \A p \in PathsOf(r) : disk[p] = r => p \in rmFailed[r]
C7_Witness ==
    \E r \in Requests :
        /\ pc[r] = "done"
        /\ tmp_input_path[r] \in rmFailed[r]
        /\ wav_path[r] # None
        /\ wav_path[r] \notin rmFailed[r]
        /\ FilesOf(r) = {tmp_input_path[r]}
        /\ response[r].status_code = 200

\* C8: the steps of a request run in the order write, convert, recognize,
\* shape, each at most once; the recognizer runs only after the converter
\* exited with status 0; after a failure no further step runs and the
\* response is an error.
C8_StepOrder ==
    /\ [](\A r \in Requests :
            /\ IsPrefix(steps[r], StepOrder)
            /\ "recognize" \in Range(steps[r]) => returncode[r] = <<0>>
            /\ (pc[r] = "done" /\ exc[r].kind # "none") => response[r].status_code = 500)
    /\ [][\A r \in Requests :
            exc[r].kind # "none" => (steps'[r] = steps[r] /\ exc'[r] = exc[r])]_vars
C8_Witness ==
    \E r, s \in Requests :
        /\ pc[r] = "done"
        /\ steps[r] = StepOrder
        /\ pc[s] = "done"
        /\ returncode[s] = <<1>>
        /\ steps[s] = <<"write", "convert">>

\* C9: while one request is inside its conversion or recognition call, a
\* request that has arrived or awaits its read can be taken up by the runtime.
C9_AcceptsWhileBlocked ==
    \A r, s \in Requests :
        (r # s /\ pc[r] \in {"converting", "recognizing"} /\ pc[s] \in {"idle", "reading"})
            => ENABLED (Receive(s) \/ ReadDone(s))

====
